---- MODULE Spec2Model ----
(***************************************************************************)
(* Model of static/script.js: the submit handler of the analysis form and  *)
(* the two rendering functions it calls.                                   *)
(*                                                                         *)
(* The state is the part of the DOM the script writes (dom), the handler   *)
(* invocations suspended at an await (inflight), and two history           *)
(* variables (last, overlapped) that record how the most recent handler    *)
(* invocation ended.  One action is one run of the handler between two     *)
(* suspension points: the synchronous prefix up to the fetch() call, the   *)
(* continuation after fetch settles, and the continuation after            *)
(* response.json() settles.                                                *)
(***************************************************************************)
EXTENDS Integers, Sequences, FiniteSets

VARIABLES dom, inflight, last, overlapped

vars == <<dom, inflight, last, overlapped>>

(***************************************************************************)
(* Bounds                                                                  *)
(***************************************************************************)
\* handler invocations suspended at an await at the same time
MaxInFlight == 2
\* longest response array of the specification SpecList
MaxListLen == 3

(***************************************************************************)
(* Text values.  A form field value is a sequence of characters so that    *)
(* String.prototype.trim can be computed.                                  *)
(***************************************************************************)
IsSpace(c) == c = " "

RECURSIVE TrimStart(_)
TrimStart(s) ==
    IF s = <<>> THEN <<>>
    ELSE IF IsSpace(Head(s)) THEN TrimStart(Tail(s)) ELSE s

RECURSIVE TrimEnd(_)
TrimEnd(s) ==
    IF s = <<>> THEN <<>>
    ELSE IF IsSpace(s[Len(s)]) THEN TrimEnd(SubSeq(s, 1, Len(s) - 1)) ELSE s

trim(s) == TrimEnd(TrimStart(s))

\* values the three text inputs can hold when the submit event fires
FieldValues == { <<>>, <<" ">>, <<" ", "a", " ">> }

\* !s for a string s
IsEmptyString(s) == s = <<>>

(***************************************************************************)
(* Messages written by the script, and the messages of the exceptions the  *)
(* runtime raises (their wording is the engine's; all are non-empty).      *)
(***************************************************************************)
LabelIdle == "Analyze Player/Team"
LabelAnalyzing == "Analyzing..."
MsgAlert == "Please enter a player name/team, week, and year."
MsgSingleNull == "Error: Single player data was null."
MsgNoData == "No player or team data found for your search in the selected week/year."
MsgUnexpected == "Unexpected error: Received data is not a recognized list format."
MsgNoSkillData == "No skill position data found for that team this week."
ConclusionMust == "MUST START (Elite Potential)"
ConclusionFlex == "FLEX / HIGH POTENTIAL START (Solid Play)"
ConclusionSit == "SIT / LOW FLEX (Risky Play)"
MsgFailedToFetch == "Failed to fetch"
MsgJsonSyntax == "Unexpected token < in JSON at position 0"
MsgNullError == "Cannot read properties of null (reading 'error')"
MsgNullLength == "Cannot read properties of null (reading 'length')"
MsgNullTeam == "Cannot read properties of null (reading 'team')"
MsgNullScore == "Cannot read properties of null (reading 'reco_score')"
MsgUndefinedToFixed == "Cannot read properties of undefined (reading 'toFixed')"

\* response.statusText of a non-success response; it is empty over HTTP/2
StatusTexts == { "", "Not Found" }

(***************************************************************************)
(* JSON values received from the server.                                   *)
(***************************************************************************)
\* an array element: JSON null or a player record.  hasScore = FALSE is a
\* record without a numeric reco_score; input_week = "" is an absent week.
Null ==
    [kind |-> "null", player_name |-> "", team |-> "", hasScore |-> FALSE,
     reco_score |-> 0, input_week |-> ""]

Record(name, team, hasScore, score, week) ==
    [kind |-> "record", player_name |-> name, team |-> team,
     hasScore |-> hasScore, reco_score |-> score, input_week |-> week]

recA == Record("a", "T1", TRUE, 10, "1")
recB == Record("b", "T1", TRUE, 90, "1")
recC == Record("c", "T2", TRUE, 50, "")
recD == Record("d", "T2", TRUE, 50, "1")
recE == Record("e", "T1", FALSE, 0, "1")

PlayerRecords == { recA, recB, recC, recD, recE }

AllElements == PlayerRecords \cup { Null }

SeqsUpTo(S, n) == UNION { [1..k -> S] : k \in 0..n }

\* a response body as response.json() delivers it: kind "unparseable" is a
\* body for which json() rejects; hasError/error is the error member of an
\* object.
Body(kind, hasError, error, elems) ==
    [kind |-> kind, hasError |-> hasError, error |-> error, elems |-> elems]

ScalarBodies ==
    { Body(k, FALSE, "", <<>>) : k \in { "unparseable", "null", "number", "string" } }

ObjectBodies ==
    { Body("object", FALSE, "", <<>>) }
      \cup { Body("object", TRUE, e, <<>>) : e \in { "", "not found" } }

ArrayBodies(S, n) == { Body("array", FALSE, "", a) : a \in SeqsUpTo(S, n) }

\* the response arrays of Spec, one or two for each way the handler treats
\* an array
CoreArrays ==
    { <<>>, <<Null>>, <<recA>>, <<recB>>, <<recE>>, <<recA, recB>>,
      <<recD, recC>>, <<recA, Null>>, <<Null, recA>> }

\* the bodies of Spec
Bodies ==
    ScalarBodies \cup ObjectBodies
      \cup { Body("array", FALSE, "", a) : a \in CoreArrays }

\* the bodies of SpecList: every array up to the bound
ListBodies == ArrayBodies(AllElements, MaxListLen)

IsArray(data) == data.kind = "array"

(***************************************************************************)
(* The DOM.                                                                *)
(***************************************************************************)
\* text of a score: Number.prototype.toFixed(2) followed by a suffix, or
\* the dashes the card shows for a falsy score
NoScoreText == [kind |-> "none", hundredths |-> 0, suffix |-> ""]

toFixed2(score) == score * 100

ScoreText(score, suffix) ==
    [kind |-> "fixed", hundredths |-> toFixed2(score), suffix |-> suffix]

DashText(suffix) == [kind |-> "dashes", hundredths |-> 0, suffix |-> suffix]

\* text of the list header
HeaderInitial == [kind |-> "initial", team |-> "", week |-> ""]
HeaderDetail == [kind |-> "detail", team |-> "", week |-> ""]
HeaderList(team, week) == [kind |-> "list", team |-> team, week |-> week]

\* the page as loaded: nothing rendered, the results section hidden, the
\* button idle
InitDom ==
    [submitButtonDisabled |-> FALSE,
     buttonText |-> LabelIdle,
     spinnerHidden |-> TRUE,
     recommendationsSectionHidden |-> TRUE,
     resultsContainerDisplay |-> "",
     errorMessage |-> "",
     playerListContainer |-> <<>>,
     playerListHeader |-> HeaderInitial,
     conclusion |-> "",
     playerNameDisplay |-> <<"", "">>,
     recommendationScore |-> NoScoreText,
     inputWeek |-> ""]

(***************************************************************************)
(* Rendering.  A rendering function maps a DOM to the DOM it leaves and    *)
(* tells whether it ended by throwing: [dom, threw, message].              *)
(***************************************************************************)
Returned(d) == [dom |-> d, threw |-> FALSE, message |-> ""]
Threw(d, msg) == [dom |-> d, threw |-> TRUE, message |-> msg]

\* x >= n for a reco_score that may be undefined (undefined >= n is false)
ScoreAtLeast(data, n) == data.hasScore /\ data.reco_score >= n

\* x || 'N/A'
OrNA(text) == IF text = "" THEN "N/A" ELSE text

createPlayerCardHTML(playerData) ==
    LET scoreColor ==
            IF ScoreAtLeast(playerData, 75) THEN "text-green-500"
            ELSE IF ScoreAtLeast(playerData, 45) THEN "text-yellow-400"
            ELSE "text-red-500"
        truthyScore == playerData.hasScore /\ playerData.reco_score # 0
    IN  [kind |-> "card",
         name |-> OrNA(playerData.player_name),
         team |-> OrNA(playerData.team),
         scoreColor |-> scoreColor,
         score |-> IF truthyScore THEN ScoreText(playerData.reco_score, "%")
                   ELSE DashText("%")]

NoSkillParagraph ==
    [kind |-> "paragraph", name |-> MsgNoSkillData, team |-> "",
     scoreColor |-> "", score |-> NoScoreText]

CompareScoresAscending(a, b) ==
    IF a.hasScore /\ b.hasScore THEN a.reco_score - b.reco_score ELSE 0

\* the comparator of the sort, (a, b) => b.reco_score - a.reco_score, with
\* the NaN of an undefined score read as +0, as Array.prototype.sort does
CompareScores(a, b) ==
    IF a.hasScore /\ b.hasScore THEN b.reco_score - a.reco_score ELSE 0

\* Array.prototype.sort is stable: an element goes after every element that
\* does not compare greater than it
RECURSIVE InsertSorted(_, _)
InsertSorted(sorted, x) ==
    IF sorted = <<>> THEN <<x>>
    ELSE IF CompareScores(Head(sorted), x) > 0 THEN <<x>> \o sorted
    ELSE <<Head(sorted)>> \o InsertSorted(Tail(sorted), x)

RECURSIVE StableSort(_)
StableSort(a) ==
    IF a = <<>> THEN <<>>
    ELSE InsertSorted(StableSort(SubSeq(a, 1, Len(a) - 1)), a[Len(a)])

Permutations(a) ==
    { [i \in 1..Len(a) |-> a[p[i]]] :
        p \in { q \in [1..Len(a) -> 1..Len(a)] :
                  \A i, j \in 1..Len(a) : q[i] = q[j] => i = j } }

\* the comparator is a consistent comparison function for the array unless
\* a record without a score compares equal to two records whose scores differ
ConsistentComparator(a) ==
    \/ \A i \in 1..Len(a) : a[i].hasScore
    \/ \A i, j \in 1..Len(a) :
         a[i].hasScore /\ a[j].hasScore => a[i].reco_score = a[j].reco_score

\* the orders dataArray.sort can leave: the stable order, or, for an
\* inconsistent comparator, an implementation-defined permutation
SortOrders(a) ==
    IF ConsistentComparator(a) THEN { StableSort(a) } ELSE Permutations(a)

HasNull(a) == \E i \in 1..Len(a) : a[i].kind = "null"

Cards(a) == [i \in 1..Len(a) |-> createPlayerCardHTML(a[i])]

\* the outcomes of renderPlayerList(dataArray)
renderPlayerList(d, dataArray) ==
    LET cleared == [d EXCEPT !.playerListContainer = <<>>]
        first == dataArray[1]
        teamName == IF Len(dataArray) > 0 THEN first.team ELSE "Team"
        weekDisplay ==
            IF Len(dataArray) > 0 /\ first.input_week # ""
            THEN first.input_week ELSE "N/A"
        headed == [cleared EXCEPT
                     !.playerListHeader = HeaderList(teamName, weekDisplay)]
        shown(items) ==
            [headed EXCEPT !.playerListContainer = items,
                           !.resultsContainerDisplay = "none",
                           !.recommendationsSectionHidden = FALSE]
    IN  IF Len(dataArray) > 0 /\ first.kind = "null"
        THEN { Threw(cleared, MsgNullTeam) }
        ELSE IF Len(dataArray) > 1 /\ HasNull(dataArray)
        THEN { Threw(headed, MsgNullScore) }
        ELSE IF Len(dataArray) > 0
        THEN { Returned(shown(Cards(sorted))) : sorted \in SortOrders(dataArray) }
        ELSE { Returned(shown(<<NoSkillParagraph>>)) }

\* renderSinglePlayerDetail(data), for a record data
renderSinglePlayerDetail(d, data) ==
    LET conclusionText ==
            IF ScoreAtLeast(data, 75) THEN ConclusionMust
            ELSE IF ScoreAtLeast(data, 45) THEN ConclusionFlex
            ELSE ConclusionSit
        named == [d EXCEPT !.playerListContainer = <<>>,
                           !.playerListHeader = HeaderDetail,
                           !.conclusion = conclusionText,
                           !.playerNameDisplay = <<data.player_name, data.team>>]
    IN  IF ~data.hasScore
        THEN Threw(named, MsgUndefinedToFixed)
        ELSE Returned([named EXCEPT
                 !.recommendationScore = ScoreText(data.reco_score, "/100"),
                 !.inputWeek = data.input_week,
                 !.resultsContainerDisplay = "block",
                 !.recommendationsSectionHidden = FALSE])

(***************************************************************************)
(* The submit handler.                                                     *)
(***************************************************************************)
LoadingStateButtonEnabled(d) ==
    [d EXCEPT !.buttonText = LabelAnalyzing,
              !.spinnerHidden = FALSE,
              !.recommendationsSectionHidden = TRUE,
              !.resultsContainerDisplay = "none",
              !.errorMessage = ""]

\* 1. Setup UI for loading state; hide previous results and errors
LoadingState(d) ==
    [d EXCEPT !.submitButtonDisabled = TRUE,
              !.buttonText = LabelAnalyzing,
              !.spinnerHidden = FALSE,
              !.recommendationsSectionHidden = TRUE,
              !.resultsContainerDisplay = "none",
              !.errorMessage = ""]

\* the three statements that restore the button, in the validation branch
\* and in the finally block
RestoreButton(d) ==
    [d EXCEPT !.submitButtonDisabled = FALSE,
              !.buttonText = LabelIdle,
              !.spinnerHidden = TRUE]

FieldsMissingYearUnchecked(playerOrTeam, weekValue, yearValue) ==
    IsEmptyString(playerOrTeam) \/ IsEmptyString(weekValue)

\* the condition of the validation branch
FieldsMissing(playerOrTeam, weekValue, yearValue) ==
    \/ IsEmptyString(playerOrTeam)
    \/ IsEmptyString(weekValue)
    \/ IsEmptyString(yearValue)

CatchSectionHidden(d, message) == [d EXCEPT !.errorMessage = message]

\* the catch block
Catch(d, message) ==
    [d EXCEPT !.errorMessage = message,
              !.recommendationsSectionHidden = FALSE]

ShowError(d, message) ==
    [d EXCEPT !.errorMessage = message,
              !.recommendationsSectionHidden = FALSE]

\* 4. Determine rendering based on array content
Dispatch(d, data) ==
    IF IsArray(data) /\ Len(data.elems) = 1
    THEN IF data.elems[1].kind # "null"
         THEN { renderSinglePlayerDetail(d, data.elems[1]) }
         ELSE { Returned(ShowError(d, MsgSingleNull)) }
    ELSE IF IsArray(data) /\ Len(data.elems) > 1
    THEN renderPlayerList(d, data.elems)
    ELSE IF IsArray(data) /\ Len(data.elems) = 0
    THEN { Returned(ShowError(d, MsgNoData)) }
    ELSE { Returned(ShowError(d, MsgUnexpected)) }

\* the try block from the settling of response.json() of a success response:
\* the parse, the logging of data.length, the dispatch
TrySuccessBody(d, body) ==
    IF body.kind = "unparseable" THEN { Threw(d, MsgJsonSyntax) }
    ELSE IF body.kind = "null" THEN { Threw(d, MsgNullLength) }
    ELSE Dispatch(d, body)

ErrorTextStatusOnly(errorData, statusText) == statusText

\* errorData.error || response.statusText
ErrorText(errorData, statusText) ==
    IF errorData.kind = "object" /\ errorData.hasError /\ errorData.error # ""
    THEN errorData.error ELSE statusText

\* the try block from the settling of response.json().catch(...) of a
\* non-success response: it always ends by throwing
TryErrorBody(d, body, statusText) ==
    LET errorData ==
            IF body.kind = "unparseable"
            THEN Body("object", TRUE, statusText, <<>>) ELSE body
    IN  IF errorData.kind = "null" THEN Threw(d, MsgNullError)
        ELSE Threw(d, ErrorText(errorData, statusText))

FinishRestoreInTry(r) ==
    IF r.threw THEN Catch(r.dom, r.message) ELSE RestoreButton(r.dom)

\* catch and finally applied to the outcome of the try block
Finish(r) ==
    RestoreButton(IF r.threw THEN Catch(r.dom, r.message) ELSE r.dom)

(***************************************************************************)
(* State and actions.                                                      *)
(***************************************************************************)
\* a handler invocation suspended at an await: pc is "fetch" (await fetch),
\* "json" (await response.json() of a success response) or "errorJson"
\* (await response.json().catch(...) of a non-success response)
Handler(pc, userInputs, statusText) ==
    [pc |-> pc, userInputs |-> userInputs, statusText |-> statusText]

NoBody == Body("none", FALSE, "", <<>>)

\* the most recent run of the handler that wrote the DOM: path is "none"
\* (no submission yet), "sent" (a request was sent and no invocation has
\* ended since), or how the last invocation to end ended: "validation",
\* "rejected" (fetch rejected), "http" (non-success status) or "success";
\* caught tells whether the catch block ran, alert is the text of the
\* alert() that run raised
Ended(path, statusText, body, caught) ==
    [path |-> path, statusText |-> statusText, body |-> body, caught |-> caught,
     alert |-> IF path = "validation" THEN MsgAlert ELSE ""]

Init ==
    /\ dom = InitDom
    /\ inflight = <<>>
    /\ last = Ended("none", "", NoBody, FALSE)
    /\ overlapped = FALSE

Remove(seq, i) == SubSeq(seq, 1, i - 1) \o SubSeq(seq, i + 1, Len(seq))

\* the submit event with the three inputs holding player, week and year:
\* the handler up to its return in the validation branch or to await fetch
Submit(player, week, year) ==
    LET playerOrTeam == trim(player)
        weekValue == trim(week)
        yearValue == trim(year)
        userInputs == [player_or_team_input |-> playerOrTeam,
                       year |-> yearValue, week |-> weekValue]
    IN  IF FieldsMissing(playerOrTeam, weekValue, yearValue)
        THEN /\ dom' = RestoreButton(LoadingState(dom))
             /\ last' = Ended("validation", "", NoBody, FALSE)
             /\ UNCHANGED <<inflight, overlapped>>
        ELSE /\ Len(inflight) < MaxInFlight
             /\ dom' = LoadingState(dom)
             /\ inflight' = Append(inflight, Handler("fetch", userInputs, ""))
             /\ overlapped' = (inflight # <<>>)
             /\ last' = Ended("sent", "", NoBody, FALSE)

\* fetch rejects (a network failure): catch and finally run
FetchReject(i) ==
    /\ inflight[i].pc = "fetch"
    /\ dom' = Finish(Threw(dom, MsgFailedToFetch))
    /\ inflight' = Remove(inflight, i)
    /\ last' = Ended("rejected", "", NoBody, TRUE)
    /\ UNCHANGED overlapped

\* fetch resolves with response.ok: the handler calls response.json()
FetchResolveOk(i) ==
    /\ inflight[i].pc = "fetch"
    /\ inflight' = [inflight EXCEPT ![i].pc = "json"]
    /\ UNCHANGED <<dom, last, overlapped>>

\* fetch resolves with a non-success status and this status text: the
\* handler calls response.json().catch(...)
FetchResolveError(i, statusText) ==
    /\ inflight[i].pc = "fetch"
    /\ inflight' = [inflight EXCEPT ![i].pc = "errorJson",
                                    ![i].statusText = statusText]
    /\ UNCHANGED <<dom, last, overlapped>>

\* response.json() of a success response settles with this body
SuccessBody(i, body) ==
    /\ inflight[i].pc = "json"
    /\ \E r \in TrySuccessBody(dom, body) :
         /\ dom' = Finish(r)
         /\ last' = Ended("success", "", body, r.threw)
    /\ inflight' = Remove(inflight, i)
    /\ UNCHANGED overlapped

\* response.json().catch(...) of a non-success response settles
ErrorBody(i, body) ==
    /\ inflight[i].pc = "errorJson"
    /\ dom' = Finish(TryErrorBody(dom, body, inflight[i].statusText))
    /\ last' = Ended("http", inflight[i].statusText, body, TRUE)
    /\ inflight' = Remove(inflight, i)
    /\ UNCHANGED overlapped

Next ==
    \/ \E player, week, year \in FieldValues : Submit(player, week, year)
    \/ \E i \in 1..Len(inflight) : FetchReject(i)
    \/ \E i \in 1..Len(inflight) : FetchResolveOk(i)
    \/ \E i \in 1..Len(inflight), statusText \in StatusTexts :
         FetchResolveError(i, statusText)
    \/ \E i \in 1..Len(inflight), body \in Bodies : SuccessBody(i, body)
    \/ \E i \in 1..Len(inflight), body \in Bodies : ErrorBody(i, body)

Spec == Init /\ [][Next]_vars

\* one submission at a time, answered by a success response whose body is
\* any array up to MaxListLen
NextList ==
    \/ /\ inflight = <<>>
       /\ last.path # "success"
       /\ \E player, week, year \in FieldValues : Submit(player, week, year)
    \/ \E i \in 1..Len(inflight) : FetchResolveOk(i)
    \/ \E i \in 1..Len(inflight), body \in ListBodies : SuccessBody(i, body)

SpecList == Init /\ [][NextList]_vars

(***************************************************************************)
(* Properties                                                              *)
(***************************************************************************)
\* the button as the finally block leaves it, and as the handler sets it
\* before the request
Idle(d) == ~d.submitButtonDisabled /\ d.buttonText = LabelIdle /\ d.spinnerHidden
Busy(d) ==
    d.submitButtonDisabled /\ d.buttonText = LabelAnalyzing /\ ~d.spinnerHidden

\* this step is the end of a handler invocation that had sent a request
HandlerEnds == Len(inflight') < Len(inflight)

\* a field is empty after trimming
SomeFieldEmpty(player, week, year) ==
    trim(player) = <<>> \/ trim(week) = <<>> \/ trim(year) = <<>>

\* this step sends a request: a new invocation is suspended at await fetch
RequestSent == Len(inflight') > Len(inflight)

\* C1: a submit event with a field that is empty after trimming sends no
\* request, whatever the other fields hold and whatever is in flight: a
\* step that sends a request is no submit event with such a field.
C1_NoRequestWhenFieldEmpty ==
    [][RequestSent =>
         \A player, week, year \in FieldValues :
             Submit(player, week, year) => ~SomeFieldEmpty(player, week, year)]_vars

\* an invalid submission was made while an earlier request is pending
C1_Witness == last.path = "validation" /\ Len(inflight) = 1

\* C2: whenever a handler invocation whose request settled ends (response
\* of any shape, non-success status, rejection, parse failure, exception
\* while rendering), it leaves the button enabled, the label idle and the
\* spinner hidden.
C2_IdleAfterCompletion == [][HandlerEnds => Idle(dom')]_vars

\* an invocation ended by an exception raised while rendering an array
C2_Witness ==
    /\ last.path = "success" /\ last.caught
    /\ IsArray(last.body) /\ Len(last.body.elems) > 0
    /\ Idle(dom)

\* the detail view is shown for this record
DetailShown(d, data) ==
    /\ d.resultsContainerDisplay = "block"
    /\ ~d.recommendationsSectionHidden
    /\ d.playerListHeader = HeaderDetail
    /\ d.playerNameDisplay = <<data.player_name, data.team>>

\* the list view is shown with one card for each of these records
ListShown(d, elems) ==
    /\ d.resultsContainerDisplay # "block"
    /\ ~d.recommendationsSectionHidden
    /\ d.playerListHeader.kind = "list"
    /\ Len(d.playerListContainer) = Len(elems)
    /\ \A k \in 1..Len(d.playerListContainer) :
         d.playerListContainer[k].kind = "card"

\* what the four-way branch is claimed to do with a parsed body
BranchOnShape(body, d) ==
    IF IsArray(body) /\ Len(body.elems) = 0 THEN d.errorMessage = MsgNoData
    ELSE IF IsArray(body) /\ Len(body.elems) = 1
    THEN DetailShown(d, body.elems[1])
    ELSE IF IsArray(body) THEN ListShown(d, body.elems)
    ELSE d.errorMessage = MsgUnexpected

\* C3: on a success response the handler branches on the shape of the
\* parsed body alone: [] shows the no-data message, a one-element array
\* (its element null included) shows the detail view, a longer array the
\* list view, and any other parsed body (JSON null included) the generic
\* unexpected-format message.
C3_FourWayBranch ==
    [][(HandlerEnds /\ last'.path = "success" /\ last'.body.kind # "unparseable")
         => BranchOnShape(last'.body, dom')]_vars

\* no card of an earlier list is left in the list container
NoCards(d) ==
    \A k \in 1..Len(d.playerListContainer) :
        d.playerListContainer[k].kind # "card"

\* C4: once a submission answered by [] completes, after any earlier
\* submissions, the error region holds the no-data message and the list
\* container of the revealed results section holds no player card.
C4_EmptyArrayShowsNoCards ==
    [][(HandlerEnds /\ last'.path = "success" /\ IsArray(last'.body)
          /\ Len(last'.body.elems) = 0)
         => /\ dom'.errorMessage = MsgNoData
            /\ ~dom'.recommendationsSectionHidden
            /\ NoCards(dom')]_vars

\* the step renders neither view
RendersNothing ==
    /\ dom'.playerListContainer = dom.playerListContainer
    /\ dom'.playerListHeader = dom.playerListHeader
    /\ dom'.resultsContainerDisplay = dom.resultsContainerDisplay
    /\ dom'.conclusion = dom.conclusion
    /\ dom'.playerNameDisplay = dom.playerNameDisplay
    /\ dom'.recommendationScore = dom.recommendationScore
    /\ dom'.inputWeek = dom.inputWeek

\* the body parsed and carries an error message
CarriesError(body) == body.kind = "object" /\ body.hasError /\ body.error # ""

\* C5: for a non-success response the error text is the error member of
\* the body when the body parses and carries one, and the status text when
\* the body does not parse; in both cases nothing is rendered and the
\* results section is revealed.
C5_HttpErrorText ==
    [][(HandlerEnds /\ last'.path = "http")
         => /\ CarriesError(last'.body)
                 => dom'.errorMessage = last'.body.error
            /\ last'.body.kind = "unparseable"
                 => dom'.errorMessage = last'.statusText
            /\ (CarriesError(last'.body) \/ last'.body.kind = "unparseable")
                 => RendersNothing /\ ~dom'.recommendationsSectionHidden]_vars

\* a non-success response whose body carried "not found" has ended, over a
\* status text that differs from it
C5_Witness ==
    /\ last.path = "http"
    /\ last.body = Body("object", TRUE, "not found", <<>>)
    /\ last.statusText = "Not Found"
    /\ dom.errorMessage = "not found"
    /\ ~dom.recommendationsSectionHidden

\* a message is visible
MessageVisible(d) == d.errorMessage # "" /\ ~d.recommendationsSectionHidden

HttpFailureText(e) ==
    IF e.body.kind = "null" THEN MsgNullError
    ELSE IF CarriesError(e.body) THEN e.body.error
    ELSE e.statusText

C7_NoSilentFailure ==
    [][(HandlerEnds /\ last'.caught) => MessageVisible(dom') /\ Idle(dom')]_vars

Bijections(n) ==
    { q \in [1..n -> 1..n] : \A i, j \in 1..n : q[i] = q[j] => i = j }

\* the cards are the cards of the records in some order
CardsOfPermutation(cards, elems) ==
    /\ Len(cards) = Len(elems)
    /\ \E p \in Bijections(Len(elems)) :
         \A k \in 1..Len(elems) : cards[k] = createPlayerCardHTML(elems[p[k]])

\* no card shows a higher score than the card before it
Descending(cards) ==
    \A k \in 1..(Len(cards) - 1) :
        cards[k].score.hundredths >= cards[k + 1].score.hundredths

AllScored(elems) ==
    \A k \in 1..Len(elems) : elems[k].kind = "record" /\ elems[k].hasScore

\* C8: for a success response that is an array of more than one record
\* (each with its numeric reco_score) the list holds exactly one card per
\* record, a permutation of the records, in descending order of score.
C8_ListSortedDescending ==
    [][(HandlerEnds /\ last'.path = "success" /\ IsArray(last'.body)
          /\ Len(last'.body.elems) > 1 /\ AllScored(last'.body.elems))
         => /\ CardsOfPermutation(dom'.playerListContainer, last'.body.elems)
            /\ Descending(dom'.playerListContainer)]_vars

\* scores [10, 90, 50] are rendered as [90, 50, 10]
C8_Witness ==
    /\ last.path = "success"
    /\ last.body.elems = <<recA, recB, recC>>
    /\ dom.playerListContainer =
         <<createPlayerCardHTML(recB), createPlayerCardHTML(recC),
           createPlayerCardHTML(recA)>>

\* C9 as stated: in every state with a request in flight the button is
\* disabled, the label reads analyzing and the spinner is shown, also when
\* submissions overlap.
C9_BusyWhileInFlight == inflight # <<>> => Busy(dom)

\* C9 amended: from the sending of a request until the next end of any
\* handler invocation (the settling of a request, or the validation
\* failure of a later submission) the button is disabled, the label reads
\* analyzing and the spinner is shown.
C9_BusyUntilAnInvocationEnds == last.path = "sent" => Busy(dom)

\* two requests are in flight and none has ended since the second was sent
C9_Witness == last.path = "sent" /\ Len(inflight) = 2 /\ Busy(dom)

\* what the user sees
Visible(d) ==
    [errorMessage |-> d.errorMessage,
     sectionHidden |-> d.recommendationsSectionHidden,
     detailShown |-> d.resultsContainerDisplay = "block",
     detail |-> IF d.resultsContainerDisplay = "block"
                THEN <<d.conclusion, d.playerNameDisplay,
                       d.recommendationScore, d.inputWeek>>
                ELSE <<"", <<"", "">>, NoScoreText, "">>,
     cards |-> d.playerListContainer,
     header |-> d.playerListHeader]

\* the pages a response can produce on its own: the handler run for it
\* alone on the page as loaded
ProducedAlone(e) ==
    LET d == LoadingState(InitDom)
    IN  IF e.path = "rejected" THEN { Finish(Threw(d, MsgFailedToFetch)) }
        ELSE IF e.path = "http"
        THEN { Finish(TryErrorBody(d, e.body, e.statusText)) }
        ELSE { Finish(r) : r \in TrySuccessBody(d, e.body) }

\* C10: when submissions overlapped, once all have settled the visible
\* state is exactly what the last response to resolve produces on its own.
C10_LastResponseWins ==
    [][(HandlerEnds /\ overlapped /\ inflight' = <<>>)
         => Visible(dom') \in { Visible(d) : d \in ProducedAlone(last') }]_vars

====
